---- MODULE Spec2Model ----
(***************************************************************************)
(* Model of LinearProgramSolver::_solve_LPSOLVE                            *)
(* (src/math/linear_program_solver_LPSOLVE.cpp).                           *)
(*                                                                         *)
(* One solver object is called repeatedly.  The member result_ survives    *)
(* from call to call; everything else is local to one invocation.  The     *)
(* external engine (lp_solve) is represented by the trace of the calls the *)
(* adapter makes on it, with their arguments; what the engine answers      *)
(* (make_lp succeeding or not, the status of solve, the solution values)   *)
(* is chosen nondeterministically.  Doubles are represented by small       *)
(* integers: the adapter only copies them.                                 *)
(***************************************************************************)
EXTENDS Integers, Sequences, FiniteSets, TLC

VARIABLES program, pc, i, lp, lb, ub, calls, ret, retval, exception, log, result_


(***************************************************************************)
(* Bounds of the model.                                                    *)
(***************************************************************************)
MaxVars == 2
MaxCstr == 2
MaxVal == 1
MaxCoeff == 2

(***************************************************************************)
(* The Model handed to the solver (LinearProgram): variables, objective,   *)
(* constraints.  Sparse coefficient maps (std::unordered_map) are          *)
(* functions from a set of 0-based variable indices to coefficients.       *)
(***************************************************************************)
VariableTypes == {"CONTINUOUS", "INTEGER", "BINARY"}

\* Bound kinds of a constraint are "FIXED", "LOWER", "UPPER", "DOUBLE"; "FREE"
\* stands for every kind that reaches the default branch of the switch over
\* cstr.bound_type().  A variable's bound kind is "DOUBLE" or anything else
\* (written "FREE").

BoundPairs == {bp \in (0..MaxVal) \X (0..MaxVal) : bp[1] <= bp[2]}

SparseMaps(n) == UNION {[S -> 1..MaxCoeff] : S \in SUBSET (0..(n - 1))}

EmptyMap == << >>

SeqsUpTo(S, n) == UNION {[1..k -> S] : k \in 0..n}

ContinuousVar == [variable_type |-> "CONTINUOUS", bound_type |-> "FREE", lb |-> 0, ub |-> 0]

\* variables of every kind, with and without an explicit DOUBLE bound
KindVars ==
    {[variable_type |-> t, bound_type |-> "FREE", lb |-> 0, ub |-> 0] : t \in VariableTypes}
    \cup {[variable_type |-> t, bound_type |-> "DOUBLE", lb |-> 0, ub |-> MaxVal] : t \in VariableTypes}

BoundVars ==
    {[variable_type |-> t, bound_type |-> "DOUBLE", lb |-> bp[1], ub |-> bp[2]] :
        t \in VariableTypes, bp \in BoundPairs}

Cstr(m, bt, b, l, u) == [coefficients |-> m, bound_type |-> bt, bound |-> b, lb |-> l, ub |-> u]

\* constraints over n variables: every coefficient map, kind and bound value
Constraints(n) ==
    {Cstr(m, bt, b, 0, 0) : m \in SparseMaps(n), bt \in {"FIXED", "LOWER", "UPPER"}, b \in 0..MaxVal}
    \cup {Cstr(m, "DOUBLE", 0, bp[1], bp[2]) : m \in SparseMaps(n), bp \in BoundPairs}
    \cup {Cstr(m, "FREE", 0, 0, 0) : m \in SparseMaps(n)}

\* one constraint of each kind on variable 0
KindConstraints ==
    {Cstr([v \in {0} |-> 1], bt, MaxVal, 0, 0) : bt \in {"FIXED", "LOWER", "UPPER"}}
    \cup {Cstr([v \in {0} |-> 1], "DOUBLE", 0, 0, MaxVal), Cstr([v \in {0} |-> 1], "FREE", 0, 0, 0)}

Program(vs, obj, cs) == [variables |-> vs, objective |-> obj, constraints |-> cs]

NoProgram == Program(<< >>, EmptyMap, << >>)

\* The Models the solver is called with.
Programs ==
    {Program(vs, EmptyMap, << >>) : vs \in SeqsUpTo(KindVars, MaxVars)}
    \cup {Program(<<v>>, EmptyMap, << >>) : v \in BoundVars}
    \cup {Program([k \in 1..MaxVars |-> ContinuousVar], obj, << >>) : obj \in SparseMaps(MaxVars)}
    \cup {Program([k \in 1..MaxVars |-> ContinuousVar], EmptyMap, <<c>>) : c \in Constraints(MaxVars)}
    \cup {Program(<<ContinuousVar>>, EmptyMap, cs) : cs \in SeqsUpTo(KindConstraints, MaxCstr)}

(***************************************************************************)
(* What the engine can answer.                                             *)
(***************************************************************************)
\* the codes of the switch over ret, and two codes outside it
TableCodes == {0, -2, 1, 2, 3, 4, 5, 6, 7, 9, 25}
StatusCodes == TableCodes \cup {8, 13}

NoRet == -1

\* values the engine may report for a variable
SolutionValues == {0, 1}

Solutions(n) == [1..n -> SolutionValues]

ExceptionKinds == {"std::exception", "other"}

vars == <<program, pc, i, lp, lb, ub, calls, ret, retval, exception, log, result_>>

(***************************************************************************)
(* Helpers of the translation.                                             *)
(***************************************************************************)
NumVars == Len(program.variables)
NumCstr == Len(program.constraints)

\* the orders in which an unordered_map with key set S can be iterated
Orders(S) == {o \in [1..Cardinality(S) -> S] : \A a, b \in 1..Cardinality(S) : a # b => o[a] # o[b]}

\* lines 35-38: the engine call that marks variable i (0-based loop index)
VariableCalls(var, idx) ==
    IF var.variable_type = "INTEGER" THEN << <<"set_int", idx, TRUE>> >>
    ELSE IF var.variable_type = "BINARY" THEN << <<"set_binary", idx, TRUE>> >>
    ELSE << >>

\* lines 45-54: dense objective row, C++ indices 0..n, element 0 ignored
ObjectiveRow(n, coeffs) ==
    [k \in 0..n |-> IF k >= 1 /\ (k - 1) \in DOMAIN coeffs THEN coeffs[k - 1] ELSE 0]

\* lines 72-78: colno / sparserow built in iteration order o
Colno(o) == [j \in 1..Len(o) |-> o[j] + 1]
Sparserow(coeffs, o) == [j \in 1..Len(o) |-> coeffs[o[j]]]

AddConstraintex(sparserow, colno, type, rh) ==
    <<"add_constraintex", Len(colno), sparserow, colno, type, rh>>

\* Faulty variant of ConstraintRows: the second row of a DOUBLE constraint
\* reuses the lower bound.
ConstraintRows_UpperFromLower(cstr, sparserow, colno) ==
    CASE cstr.bound_type = "FIXED" -> << AddConstraintex(sparserow, colno, "EQ", cstr.bound) >>
      [] cstr.bound_type = "LOWER" -> << AddConstraintex(sparserow, colno, "GE", cstr.bound) >>
      [] cstr.bound_type = "UPPER" -> << AddConstraintex(sparserow, colno, "LE", cstr.bound) >>
      [] cstr.bound_type = "DOUBLE" ->
            << AddConstraintex(sparserow, colno, "GE", cstr.lb),
               AddConstraintex(sparserow, colno, "LE", cstr.lb) >>
      [] OTHER -> << >>

\* lines 80-100: the rows emitted for one constraint
ConstraintRows(cstr, sparserow, colno) ==
    CASE cstr.bound_type = "FIXED" -> << AddConstraintex(sparserow, colno, "EQ", cstr.bound) >>
      [] cstr.bound_type = "LOWER" -> << AddConstraintex(sparserow, colno, "GE", cstr.bound) >>
      [] cstr.bound_type = "UPPER" -> << AddConstraintex(sparserow, colno, "LE", cstr.bound) >>
      [] cstr.bound_type = "DOUBLE" ->
            << AddConstraintex(sparserow, colno, "GE", cstr.lb),
               AddConstraintex(sparserow, colno, "LE", cstr.ub) >>
      [] OTHER -> << >>

\* lines 112-141: the message logged for a status code, if any
StatusMessage(code) ==
    CASE code = -2 -> <<"Out of memory">>
      [] code = 1 -> <<"The model is sub-optimal">>
      [] code = 2 -> <<"The model is infeasible">>
      [] code = 3 -> <<"The model is unbounded">>
      [] code = 4 -> <<"The model is degenerative">>
      [] code = 5 -> <<"Numerical failure encountered">>
      [] code = 6 -> <<"The abort() routine was called">>
      [] code = 7 -> <<"A timeout occurred">>
      [] code = 9 -> <<"The model could be solved by presolve">>
      [] code = 25 -> <<"Accuracy error encountered">>
      [] OTHER -> << >>

(***************************************************************************)
(* Initial state: a freshly constructed solver, no call in progress.       *)
(***************************************************************************)
Init ==
    /\ program = NoProgram
    /\ pc = "idle"
    /\ i = 0
    /\ lp = "unset"
    /\ lb = 0
    /\ ub = 0
    /\ calls = << >>
    /\ ret = NoRet
    /\ retval = "none"
    /\ exception = "none"
    /\ log = << >>
    /\ result_ = << >>

(***************************************************************************)
(* The caller invokes _solve_LPSOLVE(program) (line 7).                    *)
(***************************************************************************)
Call ==
    /\ pc = "idle"
    /\ \E p \in Programs : program' = p
    /\ pc' = "entry"
    /\ i' = 0
    /\ lp' = "unset"
    /\ lb' = 0
    /\ ub' = 0
    /\ calls' = << >>
    /\ ret' = NoRet
    /\ retval' = "none"
    /\ exception' = "none"
    /\ log' = << >>
    /\ UNCHANGED result_

\* Faulty variant of CheckEmpty: the empty model is not rejected.
CheckEmpty_NoEarlyReturn ==
    /\ pc = "entry"
    /\ pc' = "make_lp"
    /\ UNCHANGED <<program, i, lp, lb, ub, calls, ret, retval, exception, log, result_>>

\* lines 13-17
CheckEmpty ==
    /\ pc = "entry"
    /\ IF program.variables = << >>
       THEN /\ log' = Append(log, "variable set is empty")
            /\ retval' = "false"
            /\ pc' = "return"
       ELSE /\ pc' = "make_lp"
            /\ UNCHANGED <<log, retval>>
    /\ UNCHANGED <<program, i, lp, lb, ub, calls, ret, exception, result_>>

\* lines 20-25: make_lp returns a handle or NULL
MakeLp ==
    /\ pc = "make_lp"
    /\ \E ok \in BOOLEAN :
        IF ok
        THEN /\ lp' = "live"
             /\ calls' = calls \o << <<"make_lp", 0, NumVars>>, <<"set_verbose", "SEVERE">> >>
             /\ i' = 0
             /\ pc' = "variables"
             /\ UNCHANGED <<log, retval>>
        ELSE /\ lp' = "NULL"
             /\ calls' = Append(calls, <<"make_lp", 0, NumVars>>)
             /\ log' = Append(log, "error in creating a LP model")
             /\ retval' = "false"
             /\ pc' = "return"
             /\ UNCHANGED i
    /\ UNCHANGED <<program, lb, ub, ret, exception, result_>>

\* lines 28-39: one iteration of the loop over the variables
CreateVariable ==
    /\ pc = "variables"
    /\ i < NumVars
    /\ LET var == program.variables[i + 1] IN
        /\ lb' = IF var.bound_type = "DOUBLE" THEN var.lb ELSE 0
        /\ ub' = IF var.bound_type = "DOUBLE" THEN var.ub ELSE 1
        /\ calls' = calls \o VariableCalls(var, i)
    /\ i' = i + 1
    /\ pc' = IF i + 1 < NumVars THEN "variables" ELSE "objective"
    /\ UNCHANGED <<program, lp, ret, retval, exception, log, result_>>

\* lines 45-55
SetObjective ==
    /\ pc = "objective"
    /\ calls' = Append(calls, <<"set_obj_fn", ObjectiveRow(NumVars, program.objective)>>)
    /\ pc' = "rowmode"
    /\ UNCHANGED <<program, i, lp, lb, ub, ret, retval, exception, log, result_>>

\* lines 59-64
BeginRowMode ==
    /\ pc = "rowmode"
    /\ calls' = calls \o << <<"get_Ncolumns">>, <<"resize_lp", NumCstr, NumVars>>,
                            <<"set_add_rowmode", TRUE>> >>
    /\ i' = 0
    /\ pc' = IF NumCstr > 0 THEN "constraints" ELSE "solve"
    /\ UNCHANGED <<program, lp, lb, ub, ret, retval, exception, log, result_>>

\* Faulty variant of AddConstraint: the constraints are walked back to front.
AddConstraint_Reversed ==
    /\ pc = "constraints"
    /\ i < NumCstr
    /\ LET cstr == program.constraints[NumCstr - i] IN
        \E o \in Orders(DOMAIN cstr.coefficients) :
            calls' = calls \o ConstraintRows(cstr, Sparserow(cstr.coefficients, o), Colno(o))
    /\ i' = i + 1
    /\ pc' = IF i + 1 < NumCstr THEN "constraints" ELSE "solve"
    /\ UNCHANGED <<program, lp, lb, ub, ret, retval, exception, log, result_>>

\* lines 66-101: one iteration of the loop over the constraints
AddConstraint ==
    /\ pc = "constraints"
    /\ i < NumCstr
    /\ LET cstr == program.constraints[i + 1] IN
        \E o \in Orders(DOMAIN cstr.coefficients) :
            calls' = calls \o ConstraintRows(cstr, Sparserow(cstr.coefficients, o), Colno(o))
    /\ i' = i + 1
    /\ pc' = IF i + 1 < NumCstr THEN "constraints" ELSE "solve"
    /\ UNCHANGED <<program, lp, lb, ub, ret, retval, exception, log, result_>>

\* Faulty variant of Solve: the solve starts inside the batch bracket.
Solve_InsideRowMode ==
    /\ pc = "solve"
    /\ \E r \in StatusCodes : ret' = r
    /\ calls' = calls \o << <<"solve">>, <<"set_add_rowmode", FALSE>> >>
    /\ pc' = "switch"
    /\ UNCHANGED <<program, i, lp, lb, ub, retval, exception, log, result_>>

\* lines 103-104
Solve ==
    /\ pc = "solve"
    /\ \E r \in StatusCodes : ret' = r
    /\ calls' = calls \o << <<"set_add_rowmode", FALSE>>, <<"solve">> >>
    /\ pc' = "switch"
    /\ UNCHANGED <<program, i, lp, lb, ub, retval, exception, log, result_>>

\* lines 105-144
MapResult ==
    /\ pc = "switch"
    /\ IF ret = 0
       THEN /\ \E sol \in Solutions(NumVars) : result_' = sol
            /\ calls' = Append(calls, <<"get_variables">>)
            /\ UNCHANGED log
       ELSE /\ log' = log \o StatusMessage(ret)
            /\ UNCHANGED <<calls, result_>>
    /\ pc' = "delete_lp"
    /\ UNCHANGED <<program, i, lp, lb, ub, ret, retval, exception>>

\* line 146, then the return at line 155
DeleteLp ==
    /\ pc = "delete_lp"
    /\ calls' = Append(calls, <<"delete_lp">>)
    /\ lp' = "freed"
    /\ retval' = "false"
    /\ pc' = "return"
    /\ UNCHANGED <<program, i, lb, ub, ret, exception, log, result_>>

\* an allocation inside the try block fails: the row vector (line 45),
\* colno / sparserow (lines 76-77), result_.resize (line 109)
Throw ==
    /\ \/ pc \in {"objective", "constraints"}
       \/ pc = "switch" /\ ret = 0
    /\ \E e \in ExceptionKinds : exception' = e
    /\ pc' = "catch"
    /\ UNCHANGED <<program, i, lp, lb, ub, calls, ret, retval, log, result_>>

\* Faulty variant of Catch: the catch (...) handler is missing.
Catch_StdOnly ==
    /\ pc = "catch"
    /\ exception = "std::exception"
    /\ log' = Append(log, "Error code = ")
    /\ exception' = "caught"
    /\ retval' = "false"
    /\ pc' = "return"
    /\ UNCHANGED <<program, i, lp, lb, ub, calls, ret, result_>>

\* lines 148-155: either handler logs, then the function returns false
Catch ==
    /\ pc = "catch"
    /\ log' = Append(log, IF exception = "std::exception" THEN "Error code = "
                          ELSE "Exception during optimization")
    /\ exception' = "caught"
    /\ retval' = "false"
    /\ pc' = "return"
    /\ UNCHANGED <<program, i, lp, lb, ub, calls, ret, result_>>

\* control is back in the caller; the locals are gone, result_ stays
Return ==
    /\ pc = "return"
    /\ program' = NoProgram
    /\ pc' = "idle"
    /\ i' = 0
    /\ lp' = "unset"
    /\ lb' = 0
    /\ ub' = 0
    /\ calls' = << >>
    /\ ret' = NoRet
    /\ retval' = "none"
    /\ exception' = "none"
    /\ log' = << >>
    /\ UNCHANGED result_

Next ==
    \/ Call
    \/ CheckEmpty
    \/ MakeLp
    \/ CreateVariable
    \/ SetObjective
    \/ BeginRowMode
    \/ AddConstraint
    \/ Solve
    \/ MapResult
    \/ DeleteLp
    \/ Throw
    \/ Catch
    \/ Return

Spec == Init /\ [][Next]_vars

(***************************************************************************)
(* Readings of the engine-call trace used by the properties.               *)
(***************************************************************************)
CallsOf(op) == {k \in 1..Len(calls) : calls[k][1] = op}

\* columns passed to set_int / set_binary
IntColumns == {calls[k][2] : k \in CallsOf("set_int")}
BinaryColumns == {calls[k][2] : k \in CallsOf("set_binary")}

IsRow(c) == c[1] = "add_constraintex"

\* the rows added so far, in the order of the add_constraintex calls
Rows == SelectSeq(calls, IsRow)

\* rows a constraint of bound kind bt occupies
NumRows(bt) == IF bt = "DOUBLE" THEN 2 ELSE IF bt \in {"FIXED", "LOWER", "UPPER"} THEN 1 ELSE 0

RECURSIVE RowsBefore(_)
RowsBefore(k) == IF k <= 1 THEN 0 ELSE RowsBefore(k - 1) + NumRows(program.constraints[k - 1].bound_type)

\* row r carries exactly the coefficient pairs of map m, with sense type and right-hand side rh
RowCarries(r, m, type, rh) ==
    /\ IsRow(r)
    /\ r[2] = Cardinality(DOMAIN m)
    /\ Len(r[3]) = r[2]
    /\ Len(r[4]) = r[2]
    /\ {r[4][j] : j \in 1..r[2]} = {v + 1 : v \in DOMAIN m}
    /\ \A j \in 1..r[2] : r[3][j] = m[r[4][j] - 1]
    /\ r[5] = type
    /\ r[6] = rh

\* rs is what the claim says a constraint c emits
EmittedAsClaimed(rs, c) ==
    CASE c.bound_type = "FIXED" -> Len(rs) = 1 /\ RowCarries(rs[1], c.coefficients, "EQ", c.bound)
      [] c.bound_type = "LOWER" -> Len(rs) = 1 /\ RowCarries(rs[1], c.coefficients, "GE", c.bound)
      [] c.bound_type = "UPPER" -> Len(rs) = 1 /\ RowCarries(rs[1], c.coefficients, "LE", c.bound)
      [] c.bound_type = "DOUBLE" ->
            /\ Len(rs) = 2
            /\ RowCarries(rs[1], c.coefficients, "GE", c.lb)
            /\ RowCarries(rs[2], c.coefficients, "LE", c.ub)
            /\ rs[1][3] = rs[2][3]
            /\ rs[1][4] = rs[2][4]
      [] OTHER -> TRUE

\* the first row of constraint c, as the claim describes it
FirstRowOf(r, c) ==
    CASE c.bound_type = "FIXED" -> RowCarries(r, c.coefficients, "EQ", c.bound)
      [] c.bound_type = "LOWER" -> RowCarries(r, c.coefficients, "GE", c.bound)
      [] c.bound_type = "UPPER" -> RowCarries(r, c.coefficients, "LE", c.bound)
      [] c.bound_type = "DOUBLE" -> RowCarries(r, c.coefficients, "GE", c.lb)
      [] OTHER -> TRUE

FourKindsOnly ==
    \A k \in 1..NumCstr : program.constraints[k].bound_type \in {"FIXED", "LOWER", "UPPER", "DOUBLE"}

HandleCreated == lp \in {"live", "freed"}

\* position of an engine call in the order the claim C10 gives
Rank(c) ==
    CASE c[1] = "make_lp" -> 0
      [] c[1] = "set_verbose" -> 1
      [] c[1] \in {"set_int", "set_binary"} -> 2
      [] c[1] = "set_obj_fn" -> 3
      [] c[1] \in {"get_Ncolumns", "resize_lp"} -> 4
      [] c[1] = "set_add_rowmode" -> IF c[2] THEN 5 ELSE 7
      [] c[1] = "add_constraintex" -> 6
      [] c[1] = "solve" -> 8
      [] c[1] = "get_variables" -> 9
      [] c[1] = "delete_lp" -> 10
      [] OTHER -> 11

RowModeCalls(flag) == {k \in CallsOf("set_add_rowmode") : calls[k][2] = flag}

(***************************************************************************)
(* C1.  A Model with at least one variable, whose handle is created and    *)
(* whose solve returns status 0, makes solve return a Success outcome.     *)
(* The code returns false on that path (line 155).                         *)
(***************************************************************************)
C1_OptimalReturnsSuccess ==
    (pc = "return" /\ NumVars > 0 /\ HandleCreated /\ CallsOf("solve") # {}
        /\ ret = 0 /\ exception = "none")
    => retval = "true"

(***************************************************************************)
(* C2.  When a call ends in a Failure (empty model, handle creation        *)
(* failure, non-optimal status, caught exception) the solution vector      *)
(* visible to the caller is empty.  The code never clears result_.         *)
(***************************************************************************)
C2_FailureLeavesNoSolution ==
    (pc = "return"
        /\ \/ NumVars = 0
           \/ lp = "NULL"
           \/ CallsOf("solve") # {} /\ ret # 0
           \/ exception = "caught")
    => result_ = << >>

(***************************************************************************)
(* C3.  Whenever a handle was created, it has been destroyed exactly once  *)
(* when solve returns, on every exit path, exceptions included.  The code  *)
(* skips delete_lp when an exception is caught.                            *)
(***************************************************************************)
C3_HandleDestroyedExactlyOnce ==
    (pc = "return" /\ CallsOf("make_lp") # {} /\ lp # "NULL")
    => (lp = "freed" /\ Cardinality(CallsOf("delete_lp")) = 1)

(***************************************************************************)
(* C4.  A Model without variables: solve fails at once, makes no engine    *)
(* call (no handle, no solve) and does not write the result buffer.        *)
(***************************************************************************)
C4_EmptyModelNoEngineCall ==
    [][(pc = "entry" /\ program.variables = << >>)
        => (pc' = "return" /\ retval' = "false" /\ calls' = << >>
            /\ lp' = "unset" /\ result_' = result_)]_vars

C4_Witness ==
    pc = "return" /\ program.variables = << >> /\ retval = "false" /\ calls = << >>

(***************************************************************************)
(* C5.  Every variable with a DOUBLE bound [lower, upper] has that range   *)
(* registered on its engine column before the solve is invoked.  The code  *)
(* reads the bound into lb, ub and passes it to no engine call.            *)
(***************************************************************************)
C5_DoubleBoundRegistered ==
    (CallsOf("solve") # {})
    => \A v \in 1..NumVars :
        program.variables[v].bound_type = "DOUBLE"
        => \E k \in 1..Len(calls) :
            /\ calls[k][1] = "set_bounds"
            /\ calls[k][2] = v
            /\ calls[k][3] = program.variables[v].lb
            /\ calls[k][4] = program.variables[v].ub
            /\ \A s \in CallsOf("solve") : k < s

(***************************************************************************)
(* C6.  The column that represents variable i (column i + 1, the one its   *)
(* objective and constraint coefficients go to) is marked binary when the  *)
(* variable is BINARY and integer when it is INTEGER, and no other column  *)
(* is marked.  The code passes the 0-based index i to set_int/set_binary.  *)
(***************************************************************************)
C6_KindMarkedOnOwnColumn ==
    (CallsOf("set_obj_fn") # {})
    => /\ IntColumns = {v \in 1..NumVars : program.variables[v].variable_type = "INTEGER"}
       /\ BinaryColumns = {v \in 1..NumVars : program.variables[v].variable_type = "BINARY"}

(***************************************************************************)
(* C7.  Processing one constraint appends to the engine exactly the rows   *)
(* of its bound kind, each with one (column, coefficient) pair per map     *)
(* entry, column = variable index + 1, coefficient unchanged: FIXED one    *)
(* EQ row, LOWER one GE row, UPPER one LE row, DOUBLE a GE lower row       *)
(* followed by an LE upper row with identical pairs.                       *)
(***************************************************************************)
C7_RowsPerBoundKind ==
    [][(pc = "constraints" /\ pc' # "catch")
        => /\ Len(calls') >= Len(calls)
           /\ SubSeq(calls', 1, Len(calls)) = calls
           /\ EmittedAsClaimed(SubSeq(calls', Len(calls) + 1, Len(calls')),
                               program.constraints[i + 1])]_vars

C7_Witness ==
    /\ pc = "solve"
    /\ NumCstr = 1
    /\ program.constraints[1].bound_type = "DOUBLE"
    /\ Cardinality(DOMAIN program.constraints[1].coefficients) = 2
    /\ Len(Rows) = 2

(***************************************************************************)
(* C8 as claimed: the k-th constraint (of kinds FIXED, LOWER, UPPER,       *)
(* DOUBLE) sits at engine row position k.  Fails after a DOUBLE            *)
(* constraint, which occupies two rows.                                    *)
(***************************************************************************)
C8_RowPositionIsIndex ==
    (pc = "solve" /\ FourKindsOnly)
    => \A k \in 1..NumCstr : k <= Len(Rows) /\ FirstRowOf(Rows[k], program.constraints[k])

(***************************************************************************)
(* C8 amended: constraints are emitted in caller order, and the rows of    *)
(* the k-th constraint start at position 1 + the number of rows of the     *)
(* constraints before it (one per FIXED, LOWER, UPPER, two per DOUBLE),    *)
(* i.e. k + the number of DOUBLE constraints before it.                    *)
(***************************************************************************)
C8_RowPositionCountsDoubles ==
    (pc \in {"constraints", "solve"})
    => /\ Len(Rows) = RowsBefore(i + 1)
       /\ \A k \in 1..i :
            NumRows(program.constraints[k].bound_type) > 0
            => FirstRowOf(Rows[RowsBefore(k) + 1], program.constraints[k])

C8_Witness ==
    /\ pc = "solve"
    /\ NumCstr = 2
    /\ program.constraints[1].bound_type = "DOUBLE"
    /\ program.constraints[2].bound_type = "FIXED"
    /\ Len(Rows) = 3
    /\ Rows[3][5] = "EQ"

(***************************************************************************)
(* C9.  The result mapping is total and nothing escapes: every status      *)
(* code has a branch, a code outside the table ends as a plain failure     *)
(* with the handle released, every raised exception is caught, and the     *)
(* function always returns a value.                                        *)
(***************************************************************************)
C9_MappingTotalNoFaultEscapes ==
    /\ pc = "switch" => ENABLED MapResult
    /\ pc = "catch" => ENABLED Catch
    /\ pc = "delete_lp" => ((CallsOf("get_variables") # {}) <=> (ret = 0)) /\ Len(log) <= 1
    /\ pc = "return" => retval \in {"true", "false"} /\ exception \in {"none", "caught"}
    /\ (pc = "return" /\ CallsOf("solve") # {} /\ ret \notin TableCodes)
        => (retval = "false" /\ exception = "none" /\ lp = "freed" /\ log = << >>)

C9_Witness ==
    /\ pc = "return"
    /\ CallsOf("solve") # {}
    /\ ret \notin TableCodes
    /\ retval = "false"

(***************************************************************************)
(* C10.  Without an exception the engine calls of one invocation come in   *)
(* the order: create handle, mark kinds, objective, begin batch, rows,     *)
(* end batch, solve, read solution, destroy; solve is called at most once, *)
(* rows are added only inside the batch bracket, the solution is read      *)
(* only after status 0, and a completed invocation has made each of the    *)
(* bracketing calls exactly once.                                          *)
(***************************************************************************)
C10_EngineCallOrder ==
    (exception = "none")
    => /\ \A a, b \in 1..Len(calls) : a < b => Rank(calls[a]) <= Rank(calls[b])
       /\ \A k \in 1..Len(calls) : Rank(calls[k]) <= 10
       /\ Cardinality(CallsOf("solve")) <= 1
       /\ CallsOf("get_variables") # {} => ret = 0
       /\ CallsOf("add_constraintex") # {} => Cardinality(RowModeCalls(TRUE)) = 1
       /\ CallsOf("solve") # {} => Cardinality(RowModeCalls(FALSE)) = 1
       /\ (pc = "return" /\ lp = "freed")
            => /\ Cardinality(CallsOf("make_lp")) = 1
               /\ Cardinality(CallsOf("set_obj_fn")) = 1
               /\ Cardinality(RowModeCalls(TRUE)) = 1
               /\ Cardinality(RowModeCalls(FALSE)) = 1
               /\ Cardinality(CallsOf("solve")) = 1
               /\ Cardinality(CallsOf("get_variables")) = (IF ret = 0 THEN 1 ELSE 0)
               /\ Cardinality(CallsOf("delete_lp")) = 1
               /\ Len(Rows) = RowsBefore(NumCstr + 1)
               /\ calls[Len(calls)][1] = "delete_lp"

C10_Witness ==
    /\ pc = "return"
    /\ lp = "freed"
    /\ exception = "none"
    /\ ret = 0
    /\ NumCstr >= 2
    /\ Len(Rows) >= 2

====
